---- MODULE Spec2Model ----
(***************************************************************************)
(* Model of vlcclient.py: one VLCClient session talking to a VLC telnet    *)
(* interface.  The client is single threaded: it is either idle (between   *)
(* two calls) or blocked inside one of the telnetlib reads of connect() or *)
(* _send_command().  The server is the environment: it sends bytes while   *)
(* the client waits in a read and may close the connection at any time.    *)
(* Byte strings are sequences of one-character strings.                    *)
(* The code is Python 2 (basestring, list/tuple                            *)
(* ordering), and telnetlib is modelled by what expect(), read_until(),    *)
(* read_very_lazy(), write() and close() do when called without a timeout. *)
(* Spec is the whole session; HandshakeSpec is connect() against more      *)
(* kinds of server; FacadeSpec, SequenceSpec and VersionSpec start from a  *)
(* session that connect() has returned from and run the facade commands,   *)
(* commands answered one by one, and the version check.                    *)
(***************************************************************************)
EXTENDS Integers, Sequences, FiniteSets, TLC

\* ------------------------------------------------------------------ bounds
MaxCalls == 3      \* calls the user makes on the session
MaxSends == 3      \* chunks the server sends over the life of the session

\* ------------------------------------------------------- byte-string literals
VLC_MEDIA_PLAYER ==
  <<"V","L","C"," ","m","e","d","i","a"," ","p","l","a","y","e","r"," ">>
PASSWORD == <<"P","a","s","s","w","o","r","d">>
PASSWORD_PROMPT == PASSWORD \o <<":"," ">>
PROMPT == <<">">>
NEWLINE == <<"\n">>
password == <<"a","d","m","i","n">>
STATUS == <<"s","t","a","t","u","s">>
PLAY == <<"p","l","a","y">>
\* the command names
HELP == <<"h", "e", "l", "p">>
INFO == <<"i", "n", "f", "o">>
FULLSCREEN == <<"f", "u", "l", "l", "s", "c", "r", "e", "e", "n">>
ON == <<"o", "n">>
OFF == <<"o", "f", "f">>
ADD == <<"a", "d", "d">>
ENQUEUE == <<"e", "n", "q", "u", "e", "u", "e">>
SEEK == <<"s", "e", "e", "k">>
PAUSE == <<"p", "a", "u", "s", "e">>
STOP == <<"s", "t", "o", "p">>
REWIND == <<"r", "e", "w", "i", "n", "d">>
NEXT == <<"n", "e", "x", "t">>
PREV == <<"p", "r", "e", "v">>
CLEAR == <<"c", "l", "e", "a", "r">>
LOOP == <<"l", "o", "o", "p">>
REPEAT == <<"r", "e", "p", "e", "a", "t">>
RANDOM == <<"r", "a", "n", "d", "o", "m">>
VOLUME == <<"v", "o", "l", "u", "m", "e">>
VOLUP == <<"v", "o", "l", "u", "p">>
VOLDOWN == <<"v", "o", "l", "d", "o", "w", "n">>
SPACE == <<" ">>
STATUS_MIN_VERSION == <<"2",".","0",".","0">>

Digits == <<"0","1","2","3","4","5","6","7","8","9">>
IsDigit(c) == \E i \in 1..10 : Digits[i] = c
Ord(c) == CHOOSE i \in 1..10 : Digits[i] = c
IsVersionChar(c) == IsDigit(c) \/ c = "."

\* ------------------------------------------------------------ str helpers
\* pat occurs in s at index i (1-based)
OccursAt(s, pat, i) ==
  /\ i >= 1
  /\ i + Len(pat) - 1 <= Len(s)
  /\ \A k \in 1..Len(pat) : s[i + k - 1] = pat[k]

\* bytes.find: index of the first occurrence of pat in s, 0 when there is none
Find(s, pat) ==
  LET hits == {i \in 1..Len(s) : OccursAt(s, pat, i)}
  IN IF hits = {} THEN 0 ELSE CHOOSE i \in hits : \A j \in hits : i <= j

\* pat in s
Contains(s, pat) == Find(s, pat) > 0

\* s[1:-2]: a slice that leaves the last byte of the trailer in the reply
PySlice_1_m2(s) ==
  IF Len(s) - 2 >= 2 THEN SubSeq(s, 2, Len(s) - 2) ELSE <<>>

\* s[1:-3]
PySlice_1_m3(s) ==
  IF Len(s) - 3 >= 2 THEN SubSeq(s, 2, Len(s) - 3) ELSE <<>>

\* s[i:] (i 1-based first kept index)
From(s, i) == IF i > Len(s) THEN <<>> ELSE SubSeq(s, i, Len(s))

\* str.split('.'): the pieces between the dots, empty pieces included
Split(s) ==
  LET dots == {i \in 1..Len(s) : s[i] = "."}
      n == Cardinality(dots)
      \* index of the k-th dot; 0 stands before s, Len(s) + 1 after it
      Dot(k) == IF k = 0 THEN 0
                ELSE IF k > n THEN Len(s) + 1
                ELSE CHOOSE i \in dots :
                       Cardinality({j \in dots : j < i}) = k - 1
  IN [k \in 1..(n + 1) |-> SubSeq(s, Dot(k - 1) + 1, Dot(k) - 1)]

\* '.'.join(list)
RECURSIVE Join(_)
Join(l) ==
  IF l = <<>> THEN <<>>
  ELSE IF Len(l) = 1 THEN l[1]
  ELSE l[1] \o <<".">> \o Join(Tail(l))

\* Python 2 ordering of two strings of digits: a < b, by character code
StrLess(a, b) ==
  \E i \in 1..(Len(b)) :
    /\ i - 1 <= Len(a)
    /\ \A k \in 1..(i - 1) : a[k] = b[k]
    /\ (i > Len(a) \/ Ord(a[i]) < Ord(b[i]))

\* Python ordering of two lists of strings: a > b
ListGreater(a, b) ==
  \E i \in 1..(Len(a)) :
    /\ i - 1 <= Len(b)
    /\ \A k \in 1..(i - 1) : a[k] = b[k]
    /\ (i > Len(b) \/ StrLess(b[i], a[i]))

\* ------------------------------------------------ version check (pure part)
\* The list/tuple value of self.server_version_tuple: () after __init__,
\* a list of strings after connect() parsed the greeting.
EmptyTuple == [isList |-> FALSE, items |-> <<>>]
ListOf(l) == [isList |-> TRUE, items |-> l]

\* Python 2 `a_list > stored`: a list is never greater than a tuple (objects
\* of different types are ordered by type name, "list" < "tuple").
GreaterThanStored(version, stored) ==
  IF stored.isList THEN ListGreater(version, stored.items) ELSE FALSE

\* _require_version raises for the minimum `version` (a dotted string)
VersionTooOld(version, stored) == GreaterThanStored(Split(version), stored)

\* ------------------------------------------------------- regex of connect()
\* r"VLC media player ([\d.]+)" matches at i
GreetingAt(s, i) ==
  /\ OccursAt(s, VLC_MEDIA_PLAYER, i)
  /\ i + Len(VLC_MEDIA_PLAYER) <= Len(s)
  /\ IsVersionChar(s[i + Len(VLC_MEDIA_PLAYER)])

\* re.search: start of the leftmost match, 0 when there is none
GreetingStart(s) ==
  LET hits == {i \in 1..Len(s) : GreetingAt(s, i)}
  IN IF hits = {} THEN 0 ELSE CHOOSE i \in hits : \A j \in hits : i <= j

\* end of the greedy group ([\d.]+) that starts at index j
GroupEnd(s, j) ==
  CHOOSE e \in j..Len(s) :
    /\ \A k \in j..e : IsVersionChar(s[k])
    /\ (e = Len(s) \/ ~IsVersionChar(s[e + 1]))

\* ------------------------------------------------------------------- state
VARIABLES
  telnet,                \* self.telnet: "None" or "Telnet"
  sock,                  \* the session's socket: "none", "open", "closed"
  eof,                   \* Telnet.eof
  cookedq,               \* Telnet.cookedq: bytes received and not yet returned
  server_version,        \* self.server_version (<<>> stands for None)
  server_version_tuple,  \* self.server_version_tuple
  pc,                    \* where the client is: "idle" or the read it blocks in
  call,                  \* the current (or most recent) call
  ret,                   \* its outcome
  sent,                  \* bytes written to the current socket so far
  peer,                  \* the server's end: "none", "up", "closed"
  connected,             \* connect() returned normally, no disconnect() since
  unread,                \* Len(cookedq) when the pending command was written
  ncalls,                \* calls made so far
  nsends                 \* chunks sent by the server so far

vars == <<telnet, sock, eof, cookedq, server_version, server_version_tuple,
          pc, call, ret, sent, peer, connected, unread, ncalls, nsends>>

session == <<telnet, sock, eof, cookedq, server_version, server_version_tuple,
             sent, connected>>

Call(op, arg) == [op |-> op, arg |-> arg]
Pending == [kind |-> "pending", exc |-> "", val |-> <<>>]
Return(v) == [kind |-> "return", exc |-> "", val |-> v]
Raise(e) == [kind |-> "raise", exc |-> e, val |-> <<>>]
RaiseWith(e, v) == [kind |-> "raise", exc |-> e, val |-> v]

Init ==
  /\ telnet = "None"
  /\ sock = "none"
  /\ eof = FALSE
  /\ cookedq = <<>>
  /\ server_version = <<>>
  /\ server_version_tuple = EmptyTuple
  /\ pc = "idle"
  /\ call = Call("none", <<>>)
  /\ ret = Return(<<>>)
  /\ sent = <<>>
  /\ peer = "none"
  /\ connected = FALSE
  /\ unread = 0
  /\ ncalls = 0
  /\ nsends = 0

\* a call starts: the client is idle and the call budget is not used up
Begin(op, arg) ==
  /\ pc = "idle"
  /\ ncalls < MaxCalls
  /\ ncalls' = ncalls + 1
  /\ call' = Call(op, arg)

\* Telnet.write called n times in a row: how many of the writes the socket
\* accepts before one fails.  All of them while the peer is up; sendall to a
\* peer that has closed may still be accepted or fail with a socket error.
WritesAccepted(n) == IF peer = "closed" THEN 0..n ELSE {n}

\* ---------------------------------------------------------------- connect()
\* connect() without its assert: it opens a connection whatever the handle
connect_unchecked ==
  /\ Begin("connect", <<>>)
  /\ \E opened \in BOOLEAN :
       /\ telnet' = "Telnet"
       /\ eof' = FALSE
       /\ cookedq' = <<>>
       /\ IF opened
          THEN /\ sock' = "open"
               /\ peer' = "up"
               /\ sent' = <<>>
               /\ pc' = "greeting"
               /\ ret' = Pending
          ELSE /\ sock' = "none"
               /\ ret' = Raise("socket.error")
               /\ UNCHANGED <<sent, peer, pc>>
  /\ UNCHANGED <<server_version, server_version_tuple, connected, unread,
                 nsends>>

\* assert, Telnet(), open()
connect ==
  /\ Begin("connect", <<>>)
  /\ IF telnet # "None"
     THEN /\ ret' = Raise("AssertionError")
          /\ UNCHANGED <<telnet, sock, eof, cookedq, sent, peer, pc>>
     ELSE \E opened \in BOOLEAN :
            /\ telnet' = "Telnet"
            /\ eof' = FALSE
            /\ cookedq' = <<>>
            /\ IF opened
               THEN /\ sock' = "open"
                    /\ peer' = "up"
                    /\ sent' = <<>>
                    /\ pc' = "greeting"
                    /\ ret' = Pending
               ELSE /\ sock' = "none"
                    /\ ret' = Raise("socket.error")
                    /\ UNCHANGED <<sent, peer, pc>>
  /\ UNCHANGED <<server_version, server_version_tuple, connected, unread,
                 nsends>>

\* expect([r"VLC media player ([\d.]+)"]), then the two version assignments
expect_greeting ==
  /\ pc = "greeting"
  /\ LET i == GreetingStart(cookedq) IN
     IF i > 0
     THEN LET j == i + Len(VLC_MEDIA_PLAYER)
              e == GroupEnd(cookedq, j)
              v == SubSeq(cookedq, j, e)
          IN /\ server_version' = v
             /\ server_version_tuple' = ListOf(Split(v))
             /\ cookedq' = From(cookedq, e + 1)
             /\ pc' = "password"
             /\ UNCHANGED <<eof, ret>>
     ELSE \* no match: expect() blocks until the peer closes, then raises
          \* EOFError (nothing read) or returns (-1, None, text), and
          \* result[1].group fails on None
          /\ peer = "closed"
          /\ eof' = TRUE
          /\ cookedq' = <<>>
          /\ ret' = IF cookedq = <<>> THEN Raise("EOFError")
                    ELSE Raise("AttributeError")
          /\ pc' = "idle"
          /\ UNCHANGED <<server_version, server_version_tuple>>
  /\ UNCHANGED <<telnet, sock, call, sent, peer, connected, unread, ncalls,
                 nsends>>

\* read_until("Password: "), then write(password), write("\n")
read_until_password ==
  /\ pc = "password"
  /\ LET i == Find(cookedq, PASSWORD_PROMPT) IN
     /\ i > 0 \/ peer = "closed"
     /\ cookedq' = IF i > 0 THEN From(cookedq, i + Len(PASSWORD_PROMPT))
                  ELSE <<>>
     /\ eof' = IF i > 0 THEN eof ELSE TRUE
     /\ IF i = 0 /\ cookedq = <<>>
        THEN \* read_very_lazy() raises: nothing was read before the close
             /\ ret' = Raise("EOFError")
             /\ pc' = "idle"
             /\ UNCHANGED sent
        ELSE \* the prompt was read, or read_until() returned what it had
             \E k \in WritesAccepted(2) :
               /\ sent' = sent \o (IF k >= 1 THEN password ELSE <<>>)
                               \o (IF k >= 2 THEN NEWLINE ELSE <<>>)
               /\ IF k = 2
                  THEN pc' = "login" /\ UNCHANGED ret
                  ELSE pc' = "idle" /\ ret' = Raise("socket.error")
  /\ UNCHANGED <<telnet, sock, server_version, server_version_tuple, call,
                 peer, connected, unread, ncalls, nsends>>

\* expect(["Password: ", ">"]) and the test of result[2]
expect_login ==
  /\ pc = "login"
  /\ LET i0 == Find(cookedq, PASSWORD_PROMPT)
         i1 == Find(cookedq, PROMPT)
         e == IF i0 > 0 THEN i0 + Len(PASSWORD_PROMPT) - 1 ELSE i1
         text == IF e > 0 THEN SubSeq(cookedq, 1, e) ELSE cookedq
     IN /\ e > 0 \/ peer = "closed"
        /\ cookedq' = IF e > 0 THEN From(cookedq, e + 1) ELSE <<>>
        /\ eof' = IF e > 0 THEN eof ELSE TRUE
        /\ IF text = <<>>
           THEN ret' = Raise("EOFError") /\ UNCHANGED connected
           ELSE IF Contains(text, PASSWORD)
           THEN ret' = Raise("WrongPasswordError") /\ UNCHANGED connected
           ELSE ret' = Return(<<>>) /\ connected' = TRUE
  /\ pc' = "idle"
  /\ UNCHANGED <<telnet, sock, server_version, server_version_tuple, call,
                 sent, peer, unread, ncalls, nsends>>

\* ------------------------------------------------------------- disconnect()
\* disconnect() that also forgets the server version
disconnect_forgetting ==
  /\ Begin("disconnect", <<>>)
  /\ IF telnet = "None"
     THEN /\ ret' = Raise("AttributeError")
          /\ UNCHANGED <<telnet, sock, eof, cookedq, connected,
                         server_version, server_version_tuple>>
     ELSE /\ sock' = IF sock = "open" THEN "closed" ELSE sock
          /\ eof' = TRUE
          /\ cookedq' = <<>>
          /\ telnet' = "None"
          /\ connected' = FALSE
          /\ server_version' = <<>>
          /\ server_version_tuple' = EmptyTuple
          /\ ret' = Return(<<>>)
  /\ UNCHANGED <<pc, sent, peer, unread, nsends>>

disconnect ==
  /\ Begin("disconnect", <<>>)
  /\ IF telnet = "None"
     THEN \* None.close()
          /\ ret' = Raise("AttributeError")
          /\ UNCHANGED <<telnet, sock, eof, cookedq, connected>>
     ELSE /\ sock' = IF sock = "open" THEN "closed" ELSE sock
          /\ eof' = TRUE
          /\ cookedq' = <<>>      \* the Telnet object is dropped
          /\ telnet' = "None"
          /\ connected' = FALSE
          /\ ret' = Return(<<>>)
  /\ UNCHANGED <<server_version, server_version_tuple, pc, sent, peer,
                 unread, nsends>>

\* ---------------------------------------------------------- _send_command()
\* the write of _send_command(line), in a call op(arg) whose read is the
\* step `at`
write_line(op, arg, line, at) ==
  /\ Begin(op, arg)
  /\ IF telnet = "None" \/ sock # "open"
     THEN \* None.write, or Telnet.write on a Telnet whose open() failed
          /\ ret' = Raise("AttributeError")
          /\ UNCHANGED <<sent, pc, unread>>
     ELSE \E k \in WritesAccepted(1) :
            IF k = 1
            THEN /\ sent' = sent \o line \o NEWLINE
                 /\ unread' = Len(cookedq)
                 /\ pc' = at
                 /\ ret' = Pending
            ELSE /\ ret' = Raise("socket.error")
                 /\ UNCHANGED <<sent, pc, unread>>
  /\ UNCHANGED <<telnet, sock, eof, cookedq, server_version,
                 server_version_tuple, peer, connected, nsends>>

\* a command whose reply is returned as it is read
send_command(op, line) == write_line(op, line, line, "reply")

\* the read of _send_command, leaving what it read in the buffer
read_reply_keeping ==
  /\ pc = "reply"
  /\ LET i == Find(cookedq, PROMPT) IN
     /\ i > 0 \/ peer = "closed"
     /\ eof' = IF i > 0 THEN eof ELSE TRUE
     /\ ret' = IF i > 0 THEN Return(PySlice_1_m3(SubSeq(cookedq, 1, i)))
               ELSE IF cookedq = <<>> THEN Raise("EOFError")
               ELSE Return(PySlice_1_m3(cookedq))
  /\ pc' = "idle"
  /\ UNCHANGED <<telnet, sock, cookedq, server_version, server_version_tuple,
                 call, sent, peer, connected, unread, ncalls, nsends>>

\* read_until(">")[1:-3]
read_reply ==
  /\ pc = "reply"
  /\ LET i == Find(cookedq, PROMPT) IN
     /\ i > 0 \/ peer = "closed"
     /\ cookedq' = IF i > 0 THEN From(cookedq, i + 1) ELSE <<>>
     /\ eof' = IF i > 0 THEN eof ELSE TRUE
     /\ ret' = IF i > 0 THEN Return(PySlice_1_m3(SubSeq(cookedq, 1, i)))
               ELSE IF cookedq = <<>> THEN Raise("EOFError")
               ELSE Return(PySlice_1_m3(cookedq))
  /\ pc' = "idle"
  /\ UNCHANGED <<telnet, sock, server_version, server_version_tuple, call,
                 sent, peer, connected, unread, ncalls, nsends>>

\* -------------------------------------------------------- _require_version()
\* a direct call of _require_version(command, version)
require_version(command, version) ==
  /\ Begin("_require_version", version)
  /\ ret' = IF VersionTooOld(version, server_version_tuple)
            THEN RaiseWith("OldServerVersion", Join(Split(version)))
            ELSE Return(<<>>)
  /\ UNCHANGED <<session, pc, peer, unread, nsends>>

\* ------------------------------------------------------------------ commands
\* status() without its version check
status_unchecked == send_command("status", STATUS)

status ==
  IF pc = "idle" /\ VersionTooOld(STATUS_MIN_VERSION, server_version_tuple)
  THEN /\ Begin("status", STATUS)
       /\ ret' = RaiseWith("OldServerVersion", Join(Split(STATUS_MIN_VERSION)))
       /\ UNCHANGED <<session, pc, peer, unread, nsends>>
  ELSE send_command("status", STATUS)

play == send_command("play", PLAY)

\* ------------------------------------------------- the other facade commands
\* argument values: None, an int, a str (of bytes) or a bool
PyNone == [type |-> "NoneType", int |-> 0, str |-> <<>>]
PyInt(n) == [type |-> "int", int |-> n, str |-> <<>>]
PyStr(b) == [type |-> "str", int |-> 0, str |-> b]
PyBool(b) == [type |-> "bool", int |-> IF b THEN 1 ELSE 0, str |-> <<>>]

\* the truth value of `if x:`
Truthy(x) ==
  IF x.type = "str" THEN x.str # <<>>
  ELSE IF x.type = "NoneType" THEN FALSE
  ELSE x.int # 0

\* str(n) of an int
RECURSIVE Dec(_)
Dec(n) ==
  IF n < 0 THEN <<"-">> \o Dec(0 - n)
  ELSE IF n < 10 THEN <<Digits[n + 1]>>
  ELSE Dec(n \div 10) \o <<Digits[(n % 10) + 1]>>

\* "{0}".format(x)
Format(x) ==
  IF x.type = "str" THEN x.str
  ELSE IF x.type = "int" THEN Dec(x.int)
  ELSE IF x.type = "bool"
       THEN (IF x.int = 1 THEN <<"T", "r", "u", "e">>
             ELSE <<"F", "a", "l", "s", "e">>)
  ELSE <<"N", "o", "n", "e">>

\* " ".join(args)
RECURSIVE JoinSpace(_)
JoinSpace(l) ==
  IF l = <<>> THEN <<>>
  ELSE IF Len(l) = 1 THEN l[1]
  ELSE l[1] \o SPACE \o JoinSpace(Tail(l))

\* str.strip(): the characters Python 2 takes for whitespace (the vertical
\* tab, which has no escape here, is left out)
Whitespace == {" ", "\t", "\n", "\r", "\f"}
Strip(b) ==
  LET keep == {i \in 1..Len(b) : b[i] \notin Whitespace}
  IN IF keep = {} THEN <<>>
     ELSE SubSeq(b, CHOOSE i \in keep : \A j \in keep : i <= j,
                    CHOOSE i \in keep : \A j \in keep : j <= i)

\* a command of one word and no argument
bare(op, name) == write_line(op, PyNone, name, "reply")

\* a command "<name> {0}".format(x)
with_argument(op, name, x) ==
  write_line(op, x, name \o SPACE \o Format(x), "reply")

help == bare("help", HELP)
info == bare("info", INFO)

set_fullscreen(value) ==
  IF pc = "idle" /\ value.type # "bool"
  THEN /\ Begin("set_fullscreen", value)
       /\ ret' = Raise("AssertionError")
       /\ UNCHANGED <<session, pc, peer, unread, nsends>>
  ELSE write_line("set_fullscreen", value,
                  FULLSCREEN \o SPACE \o (IF Truthy(value) THEN ON ELSE OFF),
                  "reply")

\* args: a tuple of byte strings
raw(args) == write_line("raw", args, JoinSpace(args), "reply")

add(filename) == with_argument("add", ADD, filename)
enqueue(filename) == with_argument("enqueue", ENQUEUE, filename)
seek(second) == with_argument("seek", SEEK, second)
pause == bare("pause", PAUSE)
stop == bare("stop", STOP)
rewind == bare("rewind", REWIND)
next == bare("next", NEXT)
prev == bare("prev", PREV)
clear == bare("clear", CLEAR)
loop == bare("loop", LOOP)
repeat == bare("repeat", REPEAT)
random == bare("random", RANDOM)

volume(vol) ==
  IF Truthy(vol)
  THEN with_argument("volume", VOLUME, vol)
  ELSE write_line("volume", vol, VOLUME, "strip")

\* _send_command("volume").strip(): the read, then the strip
volume_strip ==
  /\ pc = "strip"
  /\ LET i == Find(cookedq, PROMPT) IN
     /\ i > 0 \/ peer = "closed"
     /\ cookedq' = IF i > 0 THEN From(cookedq, i + 1) ELSE <<>>
     /\ eof' = IF i > 0 THEN eof ELSE TRUE
     /\ ret' = IF i > 0
               THEN Return(Strip(PySlice_1_m3(SubSeq(cookedq, 1, i))))
               ELSE IF cookedq = <<>> THEN Raise("EOFError")
               ELSE Return(Strip(PySlice_1_m3(cookedq)))
  /\ pc' = "idle"
  /\ UNCHANGED <<telnet, sock, server_version, server_version_tuple, call,
                 sent, peer, connected, unread, ncalls, nsends>>

volup(steps) == with_argument("volup", VOLUP, steps)
voldown(steps) == with_argument("voldown", VOLDOWN, steps)

\* -------------------------------------------------------------- environment
CRLF == <<"\r", "\n">>
Versions == { <<"1",".","9",".","0">>, <<"3",".","0",".","1","1">> }
Payloads == { <<>>, <<"o","k">> }

Banner(v) == VLC_MEDIA_PLAYER \o v \o CRLF \o PASSWORD_PROMPT
Answer(p) == NEWLINE \o p \o CRLF \o <<">", " ">>

Chunks ==
  { Banner(v) : v \in Versions }
    \cup { Answer(p) : p \in Payloads }
    \cup { PASSWORD_PROMPT, PROMPT, <<">", " ">>, <<"\n", "o", "k">> }

\* The server speaks when the client waits for it: the banner after the
\* connection is made, the verdict after the password, an answer after a
\* command.  What it sends is free.
ServerSend(chunk) ==
  /\ sock = "open"
  /\ peer = "up"
  /\ pc # "idle"
  /\ nsends < MaxSends
  /\ nsends' = nsends + 1
  /\ cookedq' = cookedq \o chunk
  /\ UNCHANGED <<telnet, sock, eof, server_version, server_version_tuple,
                 pc, call, ret, sent, peer, connected, unread, ncalls>>

ServerClose ==
  /\ sock = "open"
  /\ peer = "up"
  /\ peer' = "closed"
  /\ UNCHANGED <<telnet, sock, eof, cookedq, server_version,
                 server_version_tuple, pc, call, ret, sent, connected,
                 unread, ncalls, nsends>>

Next ==
  \/ connect
  \/ expect_greeting
  \/ read_until_password
  \/ expect_login
  \/ disconnect
  \/ read_reply
  \/ status
  \/ play
  \/ \E c \in Chunks : ServerSend(c)
  \/ ServerClose

Spec == Init /\ [][Next]_vars

\* The client's reads return as soon as their condition holds.  Nothing is
\* assumed of the server: it may stay silent for ever.
FairSpec ==
  /\ Spec
  /\ WF_vars(expect_greeting)
  /\ WF_vars(read_until_password)
  /\ WF_vars(expect_login)
  /\ WF_vars(read_reply)

\* -------------------------------------------- version check on many versions
\* The session as connect() leaves it after the banner of version v and the
\* prompt "> ": the state Spec reaches by connect, ServerSend(Banner(v)),
\* expect_greeting, read_until_password, ServerSend("> "), expect_login.
ConnectedTo(v) ==
  /\ telnet = "Telnet"
  /\ sock = "open"
  /\ eof = FALSE
  /\ cookedq = <<" ">>
  /\ server_version = v
  /\ server_version_tuple = ListOf(Split(v))
  /\ pc = "idle"
  /\ call = Call("connect", <<>>)
  /\ ret = Return(<<>>)
  /\ sent = password \o NEWLINE
  /\ peer = "up"
  /\ connected = TRUE
  /\ unread = 0
  /\ ncalls = 1
  /\ nsends = 2

DottedVersions ==
  { a \o <<".">> \o b \o <<".">> \o c :
      a \in { <<"1">>, <<"2">>, <<"1","0">> },
      b \in { <<"0">>, <<"9">>, <<"1","0">> },
      c \in { <<"0">>, <<"1","1">> } }

VersionInit == \E v \in DottedVersions : ConnectedTo(v)

VersionNext ==
  \/ \E m \in DottedVersions : require_version(STATUS, m)
  \/ status
  \/ read_reply
  \/ \E p \in Payloads : ServerSend(Answer(p))

VersionSpec == VersionInit /\ [][VersionNext]_vars

\* ------------------------------------------------- the handshake, more servers
\* connect() against servers that greet as another product or that stop
\* before the password prompt.
MEDIA_PLAYER == From(VLC_MEDIA_PLAYER, 4)
OTHER_PRODUCT == <<"F", "o", "o">>

OtherBanner(v) == OTHER_PRODUCT \o MEDIA_PLAYER \o v \o CRLF \o PASSWORD_PROMPT
GreetingOnly(v) == VLC_MEDIA_PLAYER \o v \o CRLF

HandshakeChunks ==
  {Banner(v) : v \in Versions} \cup {OtherBanner(v) : v \in Versions}
    \cup {GreetingOnly(v) : v \in Versions}
    \cup {PASSWORD_PROMPT, <<">", " ">>}

HandshakeNext ==
  \/ connect
  \/ expect_greeting
  \/ read_until_password
  \/ expect_login
  \/ disconnect
  \/ \E c \in HandshakeChunks : ServerSend(c)
  \/ ServerClose

HandshakeSpec == Init /\ [][HandshakeNext]_vars

\* ------------------------------------------- the facade on a Connected session
\* Calls of every facade command on a session that connect() has returned
\* from, the server answering or closing.
SONG_MP3 == <<"s", "o", "n", "g", ".", "m", "p", "3">>
Filenames == {PyStr(SONG_MP3)}
Seconds == {PyInt(0), PyInt(42)}
Levels == {PyNone, PyInt(0), PyInt(80), PyStr(<<"0">>)}
Steps == {PyInt(1), PyInt(2)}
Flags == {PyBool(TRUE), PyBool(FALSE), PyInt(1)}
RawArgs == {<<>>, <<PLAY>>, <<SEEK, <<"4", "2">>>>}

FacadeInit == \E v \in Versions : ConnectedTo(v)

FacadeNext ==
  \/ help \/ status \/ info
  \/ \E value \in Flags : set_fullscreen(value)
  \/ \E args \in RawArgs : raw(args)
  \/ \E filename \in Filenames : add(filename)
  \/ \E filename \in Filenames : enqueue(filename)
  \/ \E second \in Seconds : seek(second)
  \/ play \/ pause \/ stop \/ rewind \/ next \/ prev \/ clear
  \/ loop \/ repeat \/ random
  \/ \E vol \in Levels : volume(vol)
  \/ \E steps \in Steps : volup(steps)
  \/ \E steps \in Steps : voldown(steps)
  \/ read_reply
  \/ volume_strip
  \/ \E p \in Payloads : ServerSend(Answer(p))
  \/ ServerClose

FacadeSpec == FacadeInit /\ [][FacadeNext]_vars

\* --------------------------------------------- commands answered one by one
\* A sequence of commands on a Connected session whose server answers each
\* command once, with one reply that ends with one prompt.
Replies == Payloads \cup {<<"4", "2">>}

ServerAnswer(p) ==
  /\ sock = "open"
  /\ peer = "up"
  /\ pc = "reply"
  /\ Len(cookedq) = unread             \* nothing sent yet for this command
  /\ cookedq' = cookedq \o Answer(p)
  /\ nsends' = nsends + 1
  /\ UNCHANGED <<telnet, sock, eof, server_version, server_version_tuple, pc,
                 call, ret, sent, peer, connected, unread, ncalls>>

SequenceInit == \E v \in Versions : ConnectedTo(v)

SequenceNext ==
  \/ status
  \/ play
  \/ pause
  \/ read_reply
  \/ \E p \in Replies : ServerAnswer(p)

SequenceSpec == SequenceInit /\ [][SequenceNext]_vars

\* ==================================================================== claims
CommandOps == {"play", "status"}

\* the most recent call was `op` and has ended
Ended(op) == pc = "idle" /\ call.op = op

\* this step is the start of a call of a command
CommandCalled == ncalls' = ncalls + 1 /\ call'.op \in CommandOps

\* this step is the end of the read of _send_command
ReplyRead == pc = "reply" /\ pc' = "idle"

\* C1: when the server repeats the password prompt, connect() fails with
\* WrongPasswordError and leaves the session Unconnected with its connection
\* handle cleared, so that connect() is accepted again.
C1_WrongPasswordClearsHandle ==
  (Ended("connect") /\ ret = Raise("WrongPasswordError"))
    => (telnet = "None" /\ ~connected)

\* C2: between calls, a session that is not Connected holds no open socket:
\* every failing exit of connect() and every disconnect() released it.
C2_NoOpenSocketUnlessConnected ==
  (pc = "idle" /\ ~connected) => sock # "open"

\* C3: a command called on a session that is not Connected is rejected with
\* an error, writes nothing to the socket and reads no reply.
C3_CommandRejectedWhenUnconnected ==
  [][(pc = "idle" /\ ~connected /\ CommandCalled)
       => (ret'.kind = "raise" /\ pc' = "idle" /\ sent' = sent)]_vars

\* the integer a string of digits denotes
RECURSIVE IntOf(_)
IntOf(s) ==
  IF s = <<>> THEN 0
  ELSE 10 * IntOf(SubSeq(s, 1, Len(s) - 1)) + (Ord(s[Len(s)]) - 1)

\* the tuple of integers a dotted version denotes
IntTuple(v) == [i \in 1..Len(Split(v)) |-> IntOf(Split(v)[i])]

\* a < b, lexicographically, left to right, by integer value
TupleLess(a, b) ==
  \E i \in 1..Len(b) :
    /\ i - 1 <= Len(a)
    /\ \A k \in 1..(i - 1) : a[k] = b[k]
    /\ (i > Len(a) \/ a[i] < b[i])

\* C4: _require_version fails if and only if the stored version is less
\* than the minimum, both compared as tuples of integers.
C4_TooOldIffIntegerLess ==
  Ended("_require_version")
    => ((ret.kind = "raise")
          <=> TupleLess(IntTuple(server_version), IntTuple(call.arg)))

\* what arrived since the pending command was written, and what was
\* already buffered then
Received == From(cookedq, unread + 1)
Leftover == SubSeq(cookedq, 1, unread)

\* C5: a command on a Connected session that the server answers with
\* "\n" + P + "\r\n> " returns exactly P.
C5_ReplyIsPayload ==
  [][\A p \in Payloads :
       (ReplyRead /\ connected /\ Received = Answer(p))
         => ret' = Return(p)]_vars

\* C5 (amended): it returns exactly P when no unread byte was buffered as
\* the command was written; with unread bytes L (holding no '>') buffered
\* it returns L without its first byte, then "\n", then P.
C5_ReplyIsPayloadAfterLeftover ==
  [][\A p \in Payloads :
       (ReplyRead /\ connected /\ Received = Answer(p)
          /\ ~Contains(Leftover, PROMPT))
         => ret' = Return(IF Leftover = <<>> THEN p
                          ELSE Tail(Leftover) \o NEWLINE \o p)]_vars

\* C5 witness: a command written with nothing buffered has returned the
\* payload "ok", the blank after the prompt left unread.
C5_Witness ==
  /\ Ended("play")
  /\ connected
  /\ unread = 0
  /\ ret = Return(<<"o", "k">>)
  /\ cookedq = <<" ">>

\* C6: a command on a Connected session whose read ends without the sentinel '>' having arrived
\* fails with a connection-closed error; it returns no reply value.
C6_NoReplyWithoutSentinel ==
  [][(ReplyRead /\ connected /\ ~Contains(cookedq, PROMPT))
       => ret' = Raise("EOFError")]_vars

\* C7: every call of connect() or of a command eventually returns to its
\* caller, even when the server stays connected and silent.
C7_EveryCallReturns == (pc # "idle") ~> (pc = "idle")

\* exceptions that are not classes of vlcclient.py
GenericErrors == {"EOFError", "AttributeError", "AssertionError",
                  "socket.error"}

\* C8: when the greeting never matches before the server closes, connect()
\* fails with a dedicated unexpected-greeting error, has written no password
\* and leaves the session Unconnected with its handle cleared for a retry.
C8_UnexpectedGreetingIsClean ==
  [][(pc = "greeting" /\ pc' = "idle")
       => /\ ret'.kind = "raise"
          /\ ret'.exc \notin GenericErrors
          /\ sent' = <<>>
          /\ telnet' = "None"
          /\ ~connected']_vars

\* this step is the start of a call of status()
StatusCalled == pc = "idle" /\ ncalls' = ncalls + 1 /\ call'.op = "status"

\* C9: on a Connected session status() raises the too-old error exactly when
\* the version check fails, and then writes nothing and changes no session
\* state; when the check passes, the one thing it writes is "status\n".
C9_StatusGatedBeforeSending ==
  [][(StatusCalled /\ connected) =>
       IF VersionTooOld(STATUS_MIN_VERSION, server_version_tuple)
       THEN /\ ret'.kind = "raise"
            /\ ret'.exc = "OldServerVersion"
            /\ pc' = "idle"
            /\ UNCHANGED session
       ELSE /\ ret'.exc # "OldServerVersion"
            /\ \/ sent' = sent \o STATUS \o NEWLINE /\ pc' = "reply"
               \/ peer = "closed" /\ ret' = Raise("socket.error")
                    /\ sent' = sent
            /\ UNCHANGED <<telnet, sock, server_version,
                           server_version_tuple, connected>>]_vars

\* C9 witness: status() was refused as too old on a Connected session,
\* which still holds its open connection and has written the password only.
C9_Witness ==
  /\ Ended("status")
  /\ ret.exc = "OldServerVersion"
  /\ connected
  /\ telnet = "Telnet"
  /\ sock = "open"
  /\ sent = password \o NEWLINE

\* C10: a command that fails on a Connected session because the connection
\* was closed leaves the session Unconnected, its handle cleared.
C10_FailedCommandDisconnects ==
  [][(connected /\ (\/ ReplyRead /\ ret'.kind = "raise"
                    \/ CommandCalled /\ ret'.exc = "socket.error"))
       => (telnet' = "None" /\ ~connected')]_vars

\* this step is the start of a call of `op`
Called(op) == pc = "idle" /\ ncalls' = ncalls + 1 /\ call'.op = op

\* C11: connect() on a Connected session is rejected before any network
\* action: no socket is opened, and the handle, the socket, the buffers and
\* the stored server version stay as they were.
C11_SecondConnectRejected ==
  [][(Called("connect") /\ connected)
       => /\ ret' = Raise("AssertionError")
          /\ pc' = "idle"
          /\ UNCHANGED <<session, peer, nsends>>]_vars

\* C11 witness: a connect() on a Connected session has been refused, the
\* first connection still open.
C11_Witness ==
  /\ Ended("connect")
  /\ ret = Raise("AssertionError")
  /\ connected
  /\ sock = "open"
  /\ server_version # <<>>

\* a greeting "<product> media player <version>" of any product: the index
\* where its version starts, 0 when the text holds none
ProductGreeting(s) ==
  LET n == Len(MEDIA_PLAYER)
      hits == {i \in 2..Len(s) : /\ OccursAt(s, MEDIA_PLAYER, i)
                                 /\ i + n <= Len(s)
                                 /\ IsVersionChar(s[i + n])}
  IN IF hits = {} THEN 0 ELSE n + CHOOSE i \in hits : \A j \in hits : i <= j

\* the version of that greeting
GreetedVersion(s) ==
  SubSeq(s, ProductGreeting(s), GroupEnd(s, ProductGreeting(s)))

\* the integers the components of the stored version denote
StoredIntegers ==
  [i \in 1..Len(server_version_tuple.items) |->
     IntOf(server_version_tuple.items[i])]

\* this step is the end of the greeting step of connect()
GreetingRead == pc = "greeting" /\ pc' # "greeting"

\* C12: whatever the product name of the greeting "<X> media player
\* d1.d2...dn" that connect() reads, the version it stores denotes the
\* integers (d1, ..., dn): (3, 0, 11) for "3.0.11".
C12_AnyProductVersionStored ==
  [][(GreetingRead /\ ProductGreeting(cookedq) # 0)
       => StoredIntegers' = IntTuple(GreetedVersion(cookedq))]_vars

\* the session is Connected and its server still there
ServerThere == connected /\ sock = "open" /\ peer = "up"

\* the line this step writes, when it appends one whole line to what was sent
Writes(line) == sent' = sent \o line \o NEWLINE

\* C13: volume() without argument sends exactly "volume" and returns the
\* reply stripped of leading and trailing whitespace; volume(level) sends
\* exactly "volume <level>" whenever a level is given, 0 included.
C13_VolumeSendsLevel ==
  [][/\ (Called("volume") /\ ServerThere)
          => IF call'.arg = PyNone
             THEN Writes(VOLUME)
             ELSE Writes(VOLUME \o SPACE \o Format(call'.arg))
     /\ (pc = "strip" /\ pc' = "idle" /\ call.arg = PyNone
           /\ ret'.kind = "return")
          => \E p \in Payloads : ret'.val = Strip(NEWLINE \o p \o CRLF)
    ]_vars

\* the facade commands, and the word each one sends
CommandName ==
  [help |-> HELP, status |-> STATUS, info |-> INFO,
   set_fullscreen |-> FULLSCREEN, raw |-> <<>>, add |-> ADD,
   enqueue |-> ENQUEUE, seek |-> SEEK, play |-> PLAY, pause |-> PAUSE,
   stop |-> STOP, rewind |-> REWIND, next |-> NEXT, prev |-> PREV,
   clear |-> CLEAR, loop |-> LOOP, repeat |-> REPEAT, random |-> RANDOM,
   volume |-> VOLUME, volup |-> VOLUP, voldown |-> VOLDOWN]
FacadeOps == DOMAIN CommandName
OneArgumentOps == {"add", "enqueue", "seek", "volume", "volup", "voldown"}

\* the line of a facade call: the command name, then its formatted arguments
LineOf(c) ==
  IF c.op = "raw" THEN JoinSpace(c.arg)
  ELSE IF c.op = "set_fullscreen"
       THEN FULLSCREEN \o SPACE \o (IF c.arg = PyBool(TRUE) THEN ON ELSE OFF)
  ELSE IF c.op \in OneArgumentOps /\ c.arg # PyNone
       THEN CommandName[c.op] \o SPACE \o Format(c.arg)
  ELSE CommandName[c.op]

\* this step is the start of a call of a facade command
FacadeCalled ==
  pc = "idle" /\ ncalls' = ncalls + 1 /\ call'.op \in FacadeOps

\* this step is the end of the read of a facade command
FacadeRead == pc \in {"reply", "strip"} /\ pc' = "idle"

\* C14: a facade command on a Connected session that is not refused before
\* sending writes exactly one line, its name and its formatted arguments,
\* then reads one reply that ends with the sentinel and returns it as
\* _send_command gives it (stripped for volume() without argument).
C14_OneLineOneReply ==
  [][/\ (FacadeCalled /\ ServerThere /\ ret'.kind # "raise")
          => Writes(LineOf(call')) /\ pc' \in {"reply", "strip"}
     /\ (FacadeRead /\ connected /\ ret'.kind = "return")
          => /\ Contains(cookedq, PROMPT)
             /\ sent' = sent
             /\ LET reply == PySlice_1_m3(SubSeq(cookedq, 1,
                                                 Find(cookedq, PROMPT)))
                IN ret'.val = IF call.op = "volume" /\ call.arg = PyNone
                              THEN Strip(reply) ELSE reply
    ]_vars

\* this step is the end of the last read of connect(), the one that follows
\* the password
LoginRead == pc = "login" /\ pc' = "idle"

\* C15: connect() returns normally, and the session is Connected, only if
\* the prompt ">" was read after the password was written; a server that
\* closes without ">" or "Password: " does not make it succeed.
C15_SuccessOnlyAfterPrompt ==
  [][(LoginRead /\ (ret'.kind = "return" \/ connected'))
       => Contains(cookedq, PROMPT)]_vars

\* this step of connect() writes to the socket
HandshakeWrite == pc \notin {"idle", "reply", "strip"} /\ sent' # sent

\* C16: the handshake writes nothing before the version is stored and the
\* literal "Password: " has been read; then it writes the password once,
\* followed by one newline (the newline missing only when its write fails).
C16_PasswordOnlyAfterPrompt ==
  [][HandshakeWrite
       => /\ pc = "password"
          /\ server_version # <<>>
          /\ Contains(cookedq, PASSWORD_PROMPT)
          /\ sent = <<>>
          /\ \/ sent' = password \o NEWLINE
             \/ sent' = password /\ ret'.kind = "raise"]_vars

\* the version text that the greeting regex takes from the buffer
ParsedVersion(s) ==
  LET j == GreetingStart(s) + Len(VLC_MEDIA_PLAYER)
  IN SubSeq(s, j, GroupEnd(s, j))

\* this step is connect() parsing the version out of a matched greeting
VersionParsed == pc = "greeting" /\ pc' = "password"

\* C17: only the version-parsing step of connect() writes the stored server
\* version, and it stores what it parsed from the greeting; commands, the
\* version check and disconnect() leave it as it is, and it is the empty
\* tuple as long as no connect() has parsed a greeting.
C17_VersionWrittenOnlyByConnect ==
  [][/\ VersionParsed
          => /\ call.op = "connect"
             /\ server_version' = ParsedVersion(cookedq)
             /\ server_version_tuple' = ListOf(Split(ParsedVersion(cookedq)))
     /\ ~VersionParsed
          => UNCHANGED <<server_version, server_version_tuple>>
     /\ (server_version = <<>>) <=> (server_version_tuple = EmptyTuple)
    ]_vars

\* C17 witness: a command, then disconnect(), have run after a connect() to
\* a 3.0.11 server, and the stored version is still that one.
C17_Witness ==
  /\ Ended("disconnect")
  /\ ret.kind = "return"
  /\ Contains(sent, PLAY \o NEWLINE)
  /\ server_version = <<"3", ".", "0", ".", "1", "1">>
  /\ server_version_tuple = ListOf(<<<<"3">>, <<"0">>, <<"1", "1">>>>)

\* C18: when the server answers each command with one reply that ends with
\* one prompt, the reply returned for a command is made of the bytes of the
\* answer to that command and of what followed the previous prompt, nothing
\* of another command's answer; what stays buffered is what followed this
\* prompt; and a command is written only when no earlier answer is unread.
C18_RepliesDoNotMix ==
  [][/\ ReplyRead
          => /\ \E p \in Replies :
                  /\ Received = Answer(p)
                  /\ ret' = Return(Tail(Leftover) \o NEWLINE \o p)
             /\ Leftover = SPACE
             /\ cookedq' = SPACE
     /\ (sent' # sent)
          => /\ pc = "idle"
             /\ pc' = "reply"
             /\ ~Contains(cookedq, PROMPT)
    ]_vars

\* C18 witness: the second command of a sequence has returned the payload of
\* its own answer.
C18_Witness ==
  /\ pc = "idle"
  /\ ncalls = 3
  /\ nsends = 4
  /\ ret = Return(NEWLINE \o <<"4", "2">>)
  /\ cookedq = SPACE

\* C19: disconnect() on a Connected session closes the socket and clears
\* the handle, and connect() is then accepted again; disconnect() on a
\* session that is not Connected (never connected, or already disconnected)
\* raises an error and changes nothing.
C19_DisconnectClosesOrRaises ==
  [][/\ (Called("disconnect") /\ connected)
          => /\ sock = "open" /\ sock' = "closed"
             /\ telnet' = "None"
             /\ ~connected'
             /\ ret' = Return(<<>>)
             /\ pc' = "idle"
     /\ (Called("disconnect") /\ ~connected)
          => /\ ret'.kind = "raise"
             /\ pc' = "idle"
             /\ UNCHANGED <<session, peer, nsends>>
     /\ (Called("connect") /\ telnet = "None")
          => ret' # Raise("AssertionError")
    ]_vars

====
